---- MODULE Spec2Model ----
(***************************************************************************)
(* Model of the Taichung micro-sensor air-quality dashboard                *)
(* (src/dashboard.py) and of its companion fetch script                    *)
(* (src/fetch_local.py): endpoint resolution, payload extraction, the      *)
(* time-to-live memo of the resolver, the snapshot file, schema            *)
(* normalisation, deduplication and PM2.5 classification.                  *)
(*                                                                         *)
(* Conventions                                                             *)
(*  - A text is a sequence of one-character strings.                       *)
(*  - A float is held in hundredths (fixed point): 15.4 is 1540.           *)
(*  - A scalar is a record [k, v, s]: k the kind, v the number (0 when     *)
(*    the kind carries none), s the text (<<>> when the kind carries       *)
(*    none).                                                               *)
(*  - TLA+ strings are ASCII, so the localized labels of the source are    *)
(*    written in pinyin / English; each definition names the label.        *)
(***************************************************************************)
EXTENDS Integers, Sequences, FiniteSets, TLC

\* ------------------------------------------------------------------------
\* Bounds of the model
\* ------------------------------------------------------------------------
\* reruns of the dashboard script, runs of the fetch script
MaxRuns == 2
MaxFetchRuns == 1
\* the clock advances TickStep seconds at a time, MaxTicks times
MaxTicks == 2
TickStep == 30
\* records per batch handed to the normaliser
MaxBatch == 2
\* PM2.5 inputs of the classifier run from 0 to MaxPmTenths tenths
MaxPmTenths == 2600
\* query pairs of a hint URL
MaxQuery == 2

\* ------------------------------------------------------------------------
\* Scalars
\* ------------------------------------------------------------------------
None == [k |-> "none", v |-> 0, s |-> <<>>]
NaN == [k |-> "nan", v |-> 0, s |-> <<>>]
PosInf == [k |-> "inf", v |-> 1, s |-> <<>>]
NegInf == [k |-> "inf", v |-> -1, s |-> <<>>]
Float(h) == [k |-> "float", v |-> h, s |-> <<>>]
JInt(n) == [k |-> "int", v |-> n, s |-> <<>>]
Str(t) == [k |-> "str", v |-> 0, s |-> t]

IsNumber(x) == x.k = "float" \/ x.k = "inf"
IsFinite(x) == x.k = "float"
\* pandas notna(): None and NaN are both "missing"
notna(x) == ~(x.k = "none" \/ x.k = "nan")

\* ------------------------------------------------------------------------
\* Text helpers: str.strip, str.lower, str(x), float(s)
\* ------------------------------------------------------------------------
Digits == <<"0", "1", "2", "3", "4", "5", "6", "7", "8", "9">>
IsDigit(c) == \E i \in 1..10 : Digits[i] = c
DigitVal(c) == (CHOOSE i \in 1..10 : Digits[i] = c) - 1
IsSpace(c) == c = " "

Upper == <<"A", "E", "F", "I", "L", "N", "O", "T", "U", "Y">>
Lower == <<"a", "e", "f", "i", "l", "n", "o", "t", "u", "y">>
LowerChar(c) == IF \E i \in 1..Len(Upper) : Upper[i] = c
                THEN Lower[CHOOSE i \in 1..Len(Upper) : Upper[i] = c]
                ELSE c
lower(t) == [i \in 1..Len(t) |-> LowerChar(t[i])]

RECURSIVE lstrip(_)
lstrip(t) == IF t # <<>> /\ IsSpace(Head(t)) THEN lstrip(Tail(t)) ELSE t
RECURSIVE rstrip(_)
rstrip(t) == IF t # <<>> /\ IsSpace(t[Len(t)]) THEN rstrip(SubSeq(t, 1, Len(t) - 1)) ELSE t
strip(t) == rstrip(lstrip(t))

\* value of a run of digits, most significant first
RECURSIVE DigitsVal(_)
DigitsVal(t) == IF t = <<>> THEN 0 ELSE 10 * DigitsVal(SubSeq(t, 1, Len(t) - 1)) + DigitVal(t[Len(t)])
AllDigits(t) == \A i \in 1..Len(t) : IsDigit(t[i])
IndexOf(t, c) == IF \E i \in 1..Len(t) : t[i] = c THEN CHOOSE i \in 1..Len(t) : t[i] = c /\ \A j \in 1..(i - 1) : t[j] # c ELSE 0

\* decimal text of a natural number
RECURSIVE NatText(_)
NatText(n) == IF n < 10 THEN <<Digits[n + 1]>> ELSE NatText(n \div 10) \o <<Digits[(n % 10) + 1]>>

Abs(n) == IF n < 0 THEN -n ELSE n

\* str(x) of a Python float held in hundredths: repr gives the shortest text
\* that round-trips, "120.6", "10.0", "0.05", "-1.5"
FloatText(h) ==
    LET a == Abs(h)
        whole == NatText(a \div 100)
        f == a % 100
        frac == IF f % 10 = 0 THEN <<Digits[(f \div 10) + 1]>>
                ELSE <<Digits[(f \div 10) + 1], Digits[(f % 10) + 1]>>
    IN (IF h < 0 THEN <<"-">> ELSE <<>>) \o whole \o <<".">> \o frac

\* str(x) as safe_float calls it
PyStr(x) ==
    CASE x.k = "str" -> x.s
      [] x.k = "float" -> FloatText(x.v)
      [] x.k = "int" -> (IF x.v < 0 THEN <<"-">> ELSE <<>>) \o NatText(Abs(x.v))
      [] x.k = "nan" -> <<"n", "a", "n">>
      [] x.k = "inf" -> (IF x.v < 0 THEN <<"-">> ELSE <<>>) \o <<"i", "n", "f">>
      [] OTHER -> <<"N", "o", "n", "e">>

\* float(s) on the unsigned body of a stripped text: digits [. digits] or
\* . digits, at most two fraction digits (the fixed point of the model);
\* None stands for ValueError.  Exponents and underscores are outside the
\* alphabet of the model's inputs.
ParseUnsigned(t) ==
    LET dot == IndexOf(t, ".")
        ip == IF dot = 0 THEN t ELSE SubSeq(t, 1, dot - 1)
        fp == IF dot = 0 THEN <<>> ELSE SubSeq(t, dot + 1, Len(t))
    IN IF (ip = <<>> /\ fp = <<>>) \/ ~AllDigits(ip) \/ ~AllDigits(fp) \/ Len(fp) > 2
       THEN None
       ELSE Float(100 * DigitsVal(ip)
                  + (IF Len(fp) = 0 THEN 0
                     ELSE IF Len(fp) = 1 THEN 10 * DigitsVal(fp)
                     ELSE DigitsVal(fp)))

Negate(x) == IF x.k = "float" \/ x.k = "inf" THEN [x EXCEPT !.v = -x.v] ELSE x

\* float(s): optional surrounding blanks, optional sign, then a decimal
\* number or one of inf / infinity / nan in any letter case
PyFloat(t0) ==
    LET t == strip(t0)
        signed == t # <<>> /\ (Head(t) = "-" \/ Head(t) = "+")
        body == IF signed THEN Tail(t) ELSE t
        lb == lower(body)
        r == IF lb = <<"i", "n", "f">> \/ lb = <<"i", "n", "f", "i", "n", "i", "t", "y">> THEN PosInf
             ELSE IF lb = <<"n", "a", "n">> THEN NaN
             ELSE ParseUnsigned(body)
    IN IF signed /\ Head(t) = "-" THEN Negate(r) ELSE r

\* dashboard.safe_float
safe_float(x) ==
    IF x.k = "none" THEN None
    ELSE LET s == strip(PyStr(x))
             ls == lower(s)
         IN IF s = <<>> \/ ls = <<"n", "a", "n">> \/ ls = <<"n", "o", "n", "e">>
               \/ ls = <<"n", "u", "l", "l">>
            THEN None
            ELSE PyFloat(s)

\* ------------------------------------------------------------------------
\* JSON payloads and the payload extractor
\* ------------------------------------------------------------------------
\* A payload is null, a list of raw records, a mapping from keys to payloads,
\* or another scalar.  A mapping is a function whose domain is its key set.
PNull == [t |-> "null", items |-> <<>>, fields |-> <<>>]
PScalar == [t |-> "scalar", items |-> <<>>, fields |-> <<>>]
PList(xs) == [t |-> "list", items |-> xs, fields |-> <<>>]
PDict(f) == [t |-> "dict", items |-> <<>>, fields |-> f]

isList(p) == p.t = "list"
isDict(p) == p.t = "dict"
\* dict.get(k): the value, or None (PNull) when the key is absent
dictGet(p, key) == IF key \in DOMAIN p.fields THEN p.fields[key] ELSE PNull

ExtractKeys == <<"records", "data", "items", "result">>

\* the for-loop body of normalize_records from key number i on; the two
\* files differ only in the explicit None test, which ends in the same []
RECURSIVE normalize_from(_, _)
normalize_from(payload, i) ==
    IF i > Len(ExtractKeys) THEN <<>>
    ELSE LET v == dictGet(payload, ExtractKeys[i])
         IN IF isList(v) THEN v.items
            ELSE IF isDict(v) /\ isList(dictGet(v, "records")) THEN dictGet(v, "records").items
            ELSE normalize_from(payload, i + 1)

normalize_records(payload) ==
    IF payload.t = "null" THEN <<>>
    ELSE IF isList(payload) THEN payload.items
    ELSE IF isDict(payload) THEN normalize_from(payload, 1)
    ELSE <<>>

\* ------------------------------------------------------------------------
\* URLs and query strings
\* ------------------------------------------------------------------------
\* A URL text is [ws, path, query]: ws the count of blanks around it, path
\* everything up to the "?", query the sequence of <<key, value>> pairs
\* after it.  The empty text is EmptyUrl.
Url(path, query) == [ws |-> 0, path |-> path, query |-> query]
EmptyUrl == Url("", <<>>)
\* str.strip() of a URL text
urlStrip(u) == [u EXCEPT !.ws = 0]
\* truthiness of a str
nonEmpty(u) == u # EmptyUrl

UUID == "33093aab-c094-4caf-9653-389ee511a618"
DEFAULT_SWAGGER_URL == Url("https://datacenter.taichung.gov.tw/swagger/OpenData/33093aab-c094-4caf-9653-389ee511a618", <<>>)
OpenDataUrl == Url("https://datacenter.taichung.gov.tw/OpenData/33093aab-c094-4caf-9653-389ee511a618", <<>>)
ApiUrl == Url("https://datacenter.taichung.gov.tw/api/OpenData/33093aab-c094-4caf-9653-389ee511a618", <<>>)
ApiV1Url == Url("https://datacenter.taichung.gov.tw/api/v1/OpenData/33093aab-c094-4caf-9653-389ee511a618", <<>>)
OpenApiUrl == Url("https://datacenter.taichung.gov.tw/openapi/OpenData/33093aab-c094-4caf-9653-389ee511a618", <<>>)

\* the pagination parameters every caller passes, {"limit": 1000, "offset": 0}
PageParams == <<(<<"limit", "1000">>), (<<"offset", "0">>)>>

\* position of key in an ordered dict (a sequence of <<key, value>>), 0 if absent
KeyPos(d, key) == IF \E i \in 1..Len(d) : d[i][1] = key THEN CHOOSE i \in 1..Len(d) : d[i][1] = key ELSE 0
hasKey(d, key) == KeyPos(d, key) # 0

\* urllib.parse.parse_qs: key -> list of values in order of first
\* appearance; pairs with a blank value are dropped
RECURSIVE parse_qs_acc(_, _)
parse_qs_acc(query, d) ==
    IF query = <<>> THEN d
    ELSE LET key == Head(query)[1]
             val == Head(query)[2]
             pos == KeyPos(d, key)
         IN IF val = "" THEN parse_qs_acc(Tail(query), d)
            ELSE IF pos = 0 THEN parse_qs_acc(Tail(query), Append(d, <<key, <<val>>>>))
            ELSE parse_qs_acc(Tail(query), [d EXCEPT ![pos] = <<key, Append(d[pos][2], val)>>])
parse_qs(query) == parse_qs_acc(query, <<>>)

\* urlencode({k: q[k][0] for k in q}): the first value of every key
urlencode_first(q) == [i \in 1..Len(q) |-> <<q[i][1], q[i][2][1]>>]

\* dashboard.with_query: a parameter is added only when the URL has none
RECURSIVE dash_add(_, _)
dash_add(q, params) ==
    IF params = <<>> THEN q
    ELSE LET key == Head(params)[1]
             val == Head(params)[2]
         IN IF ~hasKey(q, key) THEN dash_add(Append(q, <<key, <<val>>>>), Tail(params))
            ELSE dash_add(q, Tail(params))
with_query(url, add_params) ==
    [url EXCEPT !.query = urlencode_first(dash_add(parse_qs(url.query), add_params))]

\* fetch_local.with_query: q[k] = [str(v)] for every parameter, present or not
RECURSIVE fl_add(_, _)
fl_add(q, params) ==
    IF params = <<>> THEN q
    ELSE LET key == Head(params)[1]
             val == Head(params)[2]
             pos == KeyPos(q, key)
         IN IF pos = 0 THEN fl_add(Append(q, <<key, <<val>>>>), Tail(params))
            ELSE fl_add([q EXCEPT ![pos] = <<key, <<val>>>>], Tail(params))
fl_with_query(url, add_params) ==
    [url EXCEPT !.query = urlencode_first(fl_add(parse_qs(url.query), add_params))]

\* order-preserving removal of repeated elements (the seen/uniq loop)
RECURSIVE uniq_acc(_, _)
uniq_acc(cands, acc) ==
    IF cands = <<>> THEN acc
    ELSE IF \E i \in 1..Len(acc) : acc[i] = Head(cands) THEN uniq_acc(Tail(cands), acc)
    ELSE uniq_acc(Tail(cands), Append(acc, Head(cands)))
uniq(cands) == uniq_acc(cands, <<>>)

\* candidate_urls without the api/v1 fallback: four fallbacks instead of five
candidate_urls_four(base_url) ==
    LET b == urlStrip(base_url)
        first == IF nonEmpty(b) THEN <<with_query(b, PageParams)>> ELSE <<>>
    IN uniq(first \o << with_query(DEFAULT_SWAGGER_URL, PageParams),
                        with_query(OpenDataUrl, PageParams),
                        with_query(ApiUrl, PageParams),
                        with_query(OpenApiUrl, PageParams) >>)

\* dashboard.candidate_urls
candidate_urls(base_url) ==
    LET b == urlStrip(base_url)
        first == IF nonEmpty(b) THEN <<with_query(b, PageParams)>> ELSE <<>>
    IN uniq(first \o << with_query(DEFAULT_SWAGGER_URL, PageParams),
                        with_query(OpenDataUrl, PageParams),
                        with_query(ApiUrl, PageParams),
                        with_query(ApiV1Url, PageParams),
                        with_query(OpenApiUrl, PageParams) >>)

\* fetch_local.build_candidates: the candidates are the bare URLs; the empty
\* text is skipped by "if u and u not in seen"
RECURSIVE dropEmpty(_)
dropEmpty(cands) ==
    IF cands = <<>> THEN <<>>
    ELSE IF nonEmpty(Head(cands)) THEN <<Head(cands)>> \o dropEmpty(Tail(cands))
    ELSE dropEmpty(Tail(cands))
build_candidates(env_url) ==
    LET first == IF nonEmpty(env_url) THEN <<env_url>> ELSE <<>>
    IN uniq(dropEmpty(first \o <<OpenDataUrl, DEFAULT_SWAGGER_URL, ApiUrl, OpenApiUrl>>))

\* fetch_local.fetch_json: the URL actually requested for a candidate
fl_final_url(url) == fl_with_query(url, PageParams)

\* ------------------------------------------------------------------------
\* Schema normaliser (build_df), deduplicator, classifier
\* ------------------------------------------------------------------------
\* A raw record is a function from its keys to scalars.  A data frame is
\* [columns, rows, dup]: rows a sequence of functions from columns to
\* scalars, dup the labels that two columns of the frame carry.
\* Localized labels: shebei = U+8A2D U+5099, zhuangzhi = U+88DD U+7F6E,
\* xingzhengqu = U+884C U+653F U+5340, qu = U+5340, xiangzhenshiqu =
\* U+9109 U+93AE U+5E02 U+5340, dibiao = U+5730 U+6A19, zhanming =
\* U+7AD9 U+540D, didian = U+5730 U+9EDE, weidu = U+7DEF U+5EA6, jingdu =
\* U+7D93 U+5EA6, xixuanfuweili = U+7D30 U+61F8 U+6D6E U+5FAE U+7C92,
\* wendu = U+6EAB U+5EA6, shidu = U+6FD5 U+5EA6.
StdNames == <<"Device", "Town", "Landmark", "Lat", "Lon", "PM25", "Temp", "Hum", "Id">>
Aliases(std) ==
    CASE std = "Device" -> <<"Device", "device", "shebei", "zhuangzhi">>
      [] std = "Town" -> <<"Town", "town", "district", "area", "xingzhengqu", "qu", "xiangzhenshiqu">>
      [] std = "Landmark" -> <<"Landmark", "landmark", "name", "location", "dibiao", "zhanming", "didian">>
      [] std = "Lat" -> <<"CoordinateLatitude", "latitude", "lat", "CoordinateLat", "Coordinate_Latitude", "weidu">>
      [] std = "Lon" -> <<"Coordinatelongitude", "longitude", "lon", "lng", "CoordinateLon", "Coordinate_Longitude", "jingdu">>
      [] std = "PM25" -> <<"PM2.5", "pm2.5", "pm25", "PM25", "pm2_5", "PM2_5", "xixuanfuweili", "PM2_5_UGM3">>
      [] std = "Temp" -> <<"Temp", "temp", "temperature", "wendu", "TEMP">>
      [] std = "Hum" -> <<"Hum", "hum", "humidity", "shidu", "HUM">>
      [] std = "Id" -> <<"Id", "id">>
NumericCols == {"Lat", "Lon", "PM25", "Temp", "Hum"}

\* a frame: its column labels, its rows, and the labels two of its columns
\* carry (dup); a cell under a label of dup stands for both columns
EmptyDF == [columns |-> {}, rows |-> <<>>, dup |-> {}]
\* DataFrame.empty: no rows or no columns
dfEmpty(df) == df.columns = {} \/ df.rows = <<>>

\* the constructor's type inference on one column (lib.maybe_convert_objects):
\* a column of numbers and missing values alone becomes a float column, None
\* turns into NaN and an int into a float, when it holds a float or a NaN, or
\* ints beside a missing value; a column of None alone, of ints alone, or
\* with any other object stays as it is
InferColumn(vals) ==
    LET plain == \A i \in 1..Len(vals) : vals[i].k \in {"none", "nan", "float", "inf", "int"}
        floating == \E i \in 1..Len(vals) : vals[i].k \in {"nan", "float", "inf"}
        gap == \E i \in 1..Len(vals) : vals[i].k = "none"
        ints == \E i \in 1..Len(vals) : vals[i].k = "int"
    IN IF plain /\ (floating \/ (gap /\ ints))
       THEN [i \in 1..Len(vals) |->
                CASE vals[i].k = "none" -> NaN
                  [] vals[i].k = "int" -> Float(100 * vals[i].v)
                  [] OTHER -> vals[i]]
       ELSE vals

\* pd.DataFrame(records): the columns are the union of the keys, a cell a
\* record lacks is NaN, and every column goes through the type inference
DataFrame(records) ==
    LET cols == UNION {DOMAIN records[i] : i \in 1..Len(records)}
        raw(c) == [i \in 1..Len(records) |-> IF c \in DOMAIN records[i] THEN records[i][c] ELSE NaN]
        col == [c \in cols |-> InferColumn(raw(c))]
    IN [columns |-> cols,
        rows |-> [i \in 1..Len(records) |-> [c \in cols |-> col[c][i]]],
        dup |-> {}]

\* the alias the rename loop picks for std: the first of its candidates that
\* is a column ("" when none is); the "break" stops at that one
FirstAlias(std, cols) ==
    LET cands == Aliases(std)
    IN IF \E i \in 1..Len(cands) : cands[i] \in cols
       THEN cands[CHOOSE i \in 1..Len(cands) : cands[i] \in cols /\ \A j \in 1..(i - 1) : cands[j] \notin cols]
       ELSE ""

\* the rename dict as the set of <<old, new>> pairs
RenameMap(cols) ==
    {<<FirstAlias(StdNames[n], cols), StdNames[n]>> : n \in {m \in 1..Len(StdNames) : FirstAlias(StdNames[m], cols) # ""}}
Renamed(c, rename) == IF \E pr \in rename : pr[1] = c THEN (CHOOSE pr \in rename : pr[1] = c)[2] ELSE c
\* the columns a new label comes from; more than one makes the label a duplicate
SourcesOf(label, cols, rename) == {c \in cols : Renamed(c, rename) = label}

\* Series.apply(safe_float), then pandas' object inference: with a float in
\* the column every None becomes NaN, a column of None alone stays None
CoerceColumn(vals) ==
    LET f == [i \in 1..Len(vals) |-> safe_float(vals[i])]
    IN IF \E i \in 1..Len(f) : f[i].k # "none"
       THEN [i \in 1..Len(f) |-> IF f[i].k = "none" THEN NaN ELSE f[i]]
       ELSE f

\* dashboard.build_df.  Nothing is dropped: one row per record.  When the
\* rename leaves a numeric label on two columns (a raw "PM25" beside a
\* renamed "pm2.5"), df[c] is a two-column frame, apply(safe_float) calls
\* safe_float once per column and gets None for each, and the assignment
\* (the "column to set is duplicated" branch of __setitem__) writes None
\* into every cell of both columns.
build_df(records) ==
    IF records = <<>> THEN EmptyDF
    ELSE LET df0 == DataFrame(records)
             rename == RenameMap(df0.columns)
             newcols == {Renamed(c, rename) : c \in df0.columns}
             dups == {c \in NumericCols : Cardinality(SourcesOf(c, df0.columns, rename)) > 1}
             src(c) == CHOOSE o \in df0.columns : Renamed(o, rename) = c
             col(c) == [i \in 1..Len(records) |-> df0.rows[i][src(c)]]
             out(c) == IF c \in dups THEN [i \in 1..Len(records) |-> None]
                       ELSE IF c \in NumericCols THEN CoerceColumn(col(c))
                       ELSE col(c)
         IN [columns |-> newcols,
             rows |-> [i \in 1..Len(records) |-> [c \in newcols |-> out(c)[i]]],
             dup |-> dups]

\* subsequence of the rows whose index satisfies keep
RECURSIVE SelectRows(_, _, _)
SelectRows(rows, keep, i) ==
    IF i > Len(rows) THEN <<>>
    ELSE (IF keep[i] THEN <<rows[i]>> ELSE <<>>) \o SelectRows(rows, keep, i + 1)

\* equality of two keys under drop_duplicates: equal values are one key, and
\* missing values are one key among themselves (na_equal tells whether None
\* and NaN are the same missing key, which depends on the pandas version)
SameKey(a, b, na_equal) ==
    \/ a = b
    \/ (na_equal /\ ~notna(a) /\ ~notna(b))

\* dashboard.latest_per_device
latest_per_device(df, na_equal) ==
    IF dfEmpty(df) THEN df
    ELSE IF "Device" \notin df.columns THEN df
    ELSE [df EXCEPT !.rows = SelectRows(df.rows,
              [i \in 1..Len(df.rows) |-> ~\E j \in 1..(i - 1) : SameKey(df.rows[j]["Device"], df.rows[i]["Device"], na_equal)], 1)]

\* x <= bound for a float column value; every comparison with NaN is False
LeqBound(x, bound) ==
    CASE x.k = "float" -> x.v <= bound
      [] x.k = "inf" -> x.v < 0
      [] OTHER -> FALSE
GtBound(x, bound) ==
    CASE x.k = "float" -> x.v > bound
      [] x.k = "inf" -> x.v > 0
      [] OTHER -> FALSE

\* pm25_level with strict comparisons: a boundary value falls in the upper band
pm25_level_strict(pm) ==
    IF pm.k = "none" THEN "NoData"
    ELSE IF LeqBound(pm, 1539) THEN "Good"
    ELSE IF LeqBound(pm, 3539) THEN "Moderate"
    ELSE IF LeqBound(pm, 5439) THEN "UnhealthySensitive"
    ELSE IF LeqBound(pm, 15039) THEN "Unhealthy"
    ELSE IF LeqBound(pm, 25039) THEN "VeryUnhealthy"
    ELSE "Hazardous"

\* dashboard.pm25_level.  Levels: Good = U+826F U+597D, Moderate = U+666E
\* U+901A, UnhealthySensitive, Unhealthy, VeryUnhealthy, Hazardous = U+5371
\* U+5BB3, NoData = U+7121 U+8CC7 U+6599.
pm25_level(pm) ==
    IF pm.k = "none" THEN "NoData"
    ELSE IF LeqBound(pm, 1540) THEN "Good"
    ELSE IF LeqBound(pm, 3540) THEN "Moderate"
    ELSE IF LeqBound(pm, 5440) THEN "UnhealthySensitive"
    ELSE IF LeqBound(pm, 15040) THEN "Unhealthy"
    ELSE IF LeqBound(pm, 25040) THEN "VeryUnhealthy"
    ELSE "Hazardous"

\* the exceedance filter meets a PM25 label carried by two columns: the
\* mask df["PM25"].notna() & (df["PM25"] > 35.4) is then a two-column frame
\* of False, and df[mask] is df.where(mask), not a row selection
ExceedMaskIsFrame(df, show_only_exceed) ==
    show_only_exceed /\ "PM25" \in df.columns /\ "PM25" \in df.dup

\* the module-level filters after deduplication (only_geo, show_only_exceed).
\* The records of this model carry no raw "Lat" or "Lon" label, so PM25 is
\* the only label a frame here can carry twice.  Where the exceedance mask
\* is a frame, where() keeps every row and blanks every cell to NaN.
filter_view(df, only_geo, show_only_exceed) ==
    LET g == IF only_geo /\ "Lat" \in df.columns /\ "Lon" \in df.columns
             THEN [df EXCEPT !.rows = SelectRows(df.rows,
                      [i \in 1..Len(df.rows) |-> notna(df.rows[i]["Lat"]) /\ notna(df.rows[i]["Lon"])], 1)]
             ELSE df
    IN IF ExceedMaskIsFrame(g, show_only_exceed)
       THEN [g EXCEPT !.rows = [i \in 1..Len(g.rows) |-> [c \in g.columns |-> NaN]]]
       ELSE IF show_only_exceed /\ "PM25" \in g.columns
       THEN [g EXCEPT !.rows = SelectRows(g.rows,
                [i \in 1..Len(g.rows) |-> notna(g.rows[i]["PM25"]) /\ GtBound(g.rows[i]["PM25"], 3540)], 1)]
       ELSE g

\* render_map returns before it draws: a coordinate column is absent or no
\* row is located (lines 457-462)
MapGuarded(df_map) ==
    \/ "Lat" \notin df_map.columns \/ "Lon" \notin df_map.columns
    \/ ~\E i \in 1..Len(df_map.rows) : notna(df_map.rows[i]["Lat"]) /\ notna(df_map.rows[i]["Lon"])

\* line 476 on a PM25 label carried by two columns: m["PM25"] is a frame,
\* apply() hands pm25_level a whole column, and "if pm <= 15.4" on a Series
\* raises (the truth value of a Series is ambiguous)
LevelRaises(df_map) == ~MapGuarded(df_map) /\ "PM25" \in df_map.dup

\* dashboard.render_map: the points drawn, each [Lat, Lon, PM25, level];
\* nothing is drawn without both coordinate columns, without a located row,
\* or when line 476 raises
render_map(df_map) ==
    IF MapGuarded(df_map) THEN <<>>
    ELSE IF LevelRaises(df_map) THEN <<>>
    ELSE [i \in 1..Len(df_map.rows) |->
            LET pm == IF "PM25" \in df_map.columns THEN df_map.rows[i]["PM25"] ELSE None
            IN [Lat |-> df_map.rows[i]["Lat"], Lon |-> df_map.rows[i]["Lon"],
                PM25 |-> pm, level |-> pm25_level(pm)]]

\* ------------------------------------------------------------------------
\* The viewport fitter.  Latitudes and longitudes are held in micro-degrees
\* (24.15 is 24150000), Mercator y in units of 1e-8, and a zoom as its whole
\* level: the floor of the float the code returns (13 and 10 are exact).
\* ------------------------------------------------------------------------
Deg(v) == [na |-> FALSE, v |-> v]
NoDeg == [na |-> TRUE, v |-> 0]
PyMax(a, b) == IF b > a THEN b ELSE a
PyMin(a, b) == IF b < a THEN b ELSE a
\* dashboard.clamp
clamp(v, lo, hi) == PyMax(lo, PyMin(hi, v))

\* the centre pdk.ViewState gets when no point is located, and the zoom of
\* the near-coincident case
DefaultLat == 24150000
DefaultLon == 120670000
CoincidentZoom == 13

\* math.log(math.tan(math.radians(lat) / 2.0 + math.pi / 4.0)), rounded to
\* 1e-8, at the latitudes the model's boxes reach
MercatorE8(lat) ==
    CASE lat = -45850000 -> -90251183
      [] lat = 19150000 -> 34063300
      [] lat = 24050000 -> 43265016
      [] lat = 24140000 -> 43437089
      [] lat = 24147500 -> 43451433
      [] lat = 24148500 -> 43453346
      [] lat = 24149001 -> 43454304
      [] lat = 24149500 -> 43455259
      [] lat = 24149850 -> 43455928
      [] lat = 24150000 -> 43456215
      [] lat = 24150150 -> 43456502
      [] lat = 24150500 -> 43457172
      [] lat = 24150999 -> 43458126
      [] lat = 24151500 -> 43459084
      [] lat = 24152500 -> 43460997
      [] lat = 24160000 -> 43475343
      [] lat = 24250000 -> 43647564
      [] lat = 29150000 -> 53224814
      [] lat = 85000000 -> 313130133
lat_to_mercator_y(lat) == MercatorE8(clamp(lat, -85000000, 85000000))

RECURSIVE Pow2(_)
Pow2(n) == IF n = 0 THEN 1 ELSE 2 * Pow2(n - 1)

\* dashboard.zoom_from_bounds with viewport_px = (1100, 650), padding = 1.25.
\* scale_x / padding >= 2^n  iff  lon_span * 2^n <= 1100 / 256 / 1.25 degrees,
\* 3437500 micro-degrees; scale_y / padding >= 2^n  iff  y_span * 2^n <=
\* 650 / 256 / 1.25 = 2.03125, 203125000 in 1e-8.  The whole part of
\* log2(scale) is the largest such n; levels outside 0..20 clamp as 0 and 20 do.
zoom_from_bounds(lat_min, lat_max, lon_min, lon_max) ==
    LET lat_span == PyMax(1, lat_max - lat_min)
        lon_span == PyMax(1, lon_max - lon_min)
        y_min == lat_to_mercator_y(lat_min)
        y_max == lat_to_mercator_y(lat_max)
        y_span == PyMax(100, y_max - y_min)
        scale_x_ge(n) == lon_span <= 3437500 \div Pow2(n)
        scale_y_ge(n) == y_span <= 203125000 \div Pow2(n)
        scale_ge(n) == scale_x_ge(n) /\ scale_y_ge(n)
        zoom == IF scale_ge(0)
                THEN CHOOSE n \in 0..20 : scale_ge(n) /\ (n = 20 \/ ~scale_ge(n + 1))
                ELSE 0
    IN clamp(zoom, 8, 14)

RECURSIVE ColMin(_, _)
ColMin(m, c) == IF Len(m) = 1 THEN m[1][c].v ELSE PyMin(m[1][c].v, ColMin(Tail(m), c))
RECURSIVE ColMax(_, _)
ColMax(m, c) == IF Len(m) = 1 THEN m[1][c].v ELSE PyMax(m[1][c].v, ColMax(Tail(m), c))

\* dashboard.view_state_for_points: df_map is the sequence of the rows'
\* [Lat, Lon]; the view is [latitude, longitude, zoom]
view_state_for_points(df_map, default_zoom) ==
    LET located(r) == ~r.Lat.na /\ ~r.Lon.na
        m == SelectSeq(df_map, located)
    IN IF m = <<>>
       THEN [latitude |-> DefaultLat, longitude |-> DefaultLon, zoom |-> default_zoom]
       ELSE LET lat_min == ColMin(m, "Lat")
                lat_max == ColMax(m, "Lat")
                lon_min == ColMin(m, "Lon")
                lon_max == ColMax(m, "Lon")
                center_lat == (lat_min + lat_max) \div 2
                center_lon == (lon_min + lon_max) \div 2
                z == IF (lat_max - lat_min) < 2000 /\ (lon_max - lon_min) < 2000
                     THEN CoincidentZoom
                     ELSE zoom_from_bounds(lat_min, lat_max, lon_min, lon_max)
            IN [latitude |-> center_lat, longitude |-> center_lon, zoom |-> z]

\* ------------------------------------------------------------------------
\* Inputs of the model
\* ------------------------------------------------------------------------
T_A == <<"A">>
T_B == <<"B">>
T_P == <<"P">>
T_X == <<"X">>
\* the two records of the normalisation example: localized names with pm2.5,
\* and longitude / latitude with PM25
RecJing == ("jingdu" :> Float(12060)) @@ ("weidu" :> Float(2410)) @@ ("pm2.5" :> Str(<<"4", "0", ".", "2">>))
RecLong == ("longitude" :> Float(12070)) @@ ("latitude" :> Float(2420)) @@ ("PM25" :> Str(<<"1", "0", ".", "0">>))
\* the second record with an alias that is not itself the canonical label
RecLong2 == ("longitude" :> Float(12070)) @@ ("latitude" :> Float(2420)) @@ ("pm25" :> Str(<<"1", "0", ".", "0">>))
RecDevA1 == ("Device" :> Str(T_A)) @@ ("Town" :> Str(T_X)) @@ ("longitude" :> Float(12061)) @@ ("latitude" :> Float(2411)) @@ ("pm2.5" :> Str(<<"1", "5", ".", "4">>))
RecDevA2 == ("Device" :> Str(T_A)) @@ ("Town" :> Str(T_X)) @@ ("longitude" :> Float(12062)) @@ ("latitude" :> Float(2412)) @@ ("pm2.5" :> Float(3541))
RecDevB == ("device" :> Str(T_B)) @@ ("longitude" :> Float(12063)) @@ ("latitude" :> Float(2413)) @@ ("pm2.5" :> Str(<<" ", "5", "4", ".", "4", " ">>))
\* no device id (JSON null), blank pm2.5
RecNoDev1 == ("Device" :> None) @@ ("longitude" :> Float(12064)) @@ ("latitude" :> Float(2414)) @@ ("pm2.5" :> Str(<<>>))
\* no device id (JSON null), non-numeric longitude, non-finite pm2.5
RecNoDev2 == ("Device" :> None) @@ ("longitude" :> Str(<<"a", "b", "c">>)) @@ ("latitude" :> Float(2415)) @@ ("pm2.5" :> Str(<<"i", "n", "f">>))
\* no device key at all, no pm2.5 key
RecBare == ("longitude" :> Float(12066)) @@ ("latitude" :> Float(2416))
\* a record without any key
RecEmpty == <<>>

RawRecordSet == {RecJing, RecLong, RecLong2, RecDevA1, RecDevA2, RecDevB, RecNoDev1, RecNoDev2, RecBare, RecEmpty}

\* a record of device P with the given pm2.5 value
PmRec(pm) == ("Device" :> Str(T_P)) @@ ("longitude" :> Float(12060)) @@ ("latitude" :> Float(2410)) @@ ("pm2.5" :> pm)
LevelBounds == <<1540, 3540, 5440, 15040, 25040>>
PmGrid == {Float(10 * n) : n \in 0..MaxPmTenths}
          \cup {Float(LevelBounds[n] + d) : n \in 1..Len(LevelBounds), d \in {-1, 1}}
          \cup {PosInf}

Batches == (UNION {[1..n -> RawRecordSet] : n \in 1..MaxBatch}) \cup {<<PmRec(pm)>> : pm \in PmGrid}

\* the datasets the remote API serves
DS0 == <<RecEmpty>>
DS1 == <<RecDevA1>>
DS2 == <<RecDevA2, RecDevB, RecDevA1>>

\* what one GET can end in: an exception (HTTP status, transport, body that
\* is not JSON) or a decoded payload
NoErr == "none"
Raised(e) == [ok |-> FALSE, err |-> e, payload |-> PNull]
Answered(p) == [ok |-> TRUE, err |-> NoErr, payload |-> p]
Http500 == Raised("HTTP500")
Responses ==
    { Http500, Raised("JSONDecodeError"),
      Answered(PNull),
      Answered(PDict([message |-> PScalar])),
      Answered(PList(DS0)),
      Answered(PList(DS1)),
      Answered(PDict([data |-> PDict([records |-> PList(DS2)])])) }

HintCustom == Url("https://example.org/aqi", <<(<<"limit", "5">>)>>)
DashHints == {EmptyUrl, HintCustom}
ApiKeys == {"", "K"}
EnvHints == {EmptyUrl, HintCustom, OpenDataUrl, Url(OpenDataUrl.path, PageParams)}

\* ------------------------------------------------------------------------
\* State
\* ------------------------------------------------------------------------
VARIABLES
    prog,         \* the program this behaviour runs: "dashboard" or "fetch_local"
    now,          \* wall clock, seconds
    memo,         \* st.cache_data entries of fetch_records_smart
    snapshot,     \* data/taichung_micro_latest.json
    runs,         \* dashboard script runs started
    d_pc,         \* dashboard: "idle" or "resolving"
    d_args,       \* dashboard: <<url, api_key>> of the run
    d_fetch_time, \* dashboard: fetch_time of the run
    d_cands,      \* fetch_records_smart: candidate_urls(base_url)
    d_tried,      \* fetch_records_smart: tried
    d_last_err,   \* fetch_records_smart: last_err
    d_seen,       \* the kinds of outcome the requests of the run have had
    d_out,        \* what the latest request of the run ended in: the error
                  \* it raised, "nodata" or "data" ("none" before the first)
    view,         \* what the last finished run of the dashboard shows
    f_runs,       \* fetch script runs started
    f_pc,         \* fetch script: "idle" or "running"
    f_cands,      \* main: candidates
    f_tried,      \* main: the URLs requested so far
    f_last_err,   \* main: last_err
    f_log,        \* the outcome of every request of the run, in order
    f_exit,       \* how the last finished run of the fetch script ended
    t_stage, t_records, t_raw, t_df, t_points,  \* the table pipeline
    u_stage, u_hint, u_out,                     \* candidate construction
    z_stage, z_pts, z_views                     \* the viewport fitter

resolveVars == <<prog, now, memo, snapshot, runs, d_pc, d_args, d_fetch_time, d_cands, d_tried,
                 d_last_err, d_seen, d_out, view, f_runs, f_pc, f_cands, f_tried, f_last_err, f_log, f_exit>>
tableVars == <<t_stage, t_records, t_raw, t_df, t_points>>
urlVars == <<u_stage, u_hint, u_out>>
zoomVars == <<z_stage, z_pts, z_views>>
vars == <<resolveVars, tableVars, urlVars, zoomVars>>

TTL == 60

NoFile == [exists |-> FALSE, writer |-> "", saved_at |-> 0, used_api |-> EmptyUrl, count |-> 0, records |-> <<>>]
NoView == [state |-> "none", used_url |-> EmptyUrl, records |-> <<>>,
           fetch_time |-> 0, err_last |-> NoErr, err_tried |-> <<>>, err_seen |-> {}]
\* how a run of the fetch script ended; err_tried is the list of URLs the
\* error message carries (the message of line 110 names the last error only)
NoExit == [status |-> "none", used_url |-> EmptyUrl, records |-> <<>>, err_last |-> NoErr, err_tried |-> <<>>]

IdleResolve ==
    /\ now = 0 /\ memo = {} /\ snapshot = NoFile /\ runs = 0
    /\ d_pc = "idle" /\ d_args = <<EmptyUrl, "">> /\ d_fetch_time = 0
    /\ d_cands = <<>> /\ d_tried = <<>> /\ d_last_err = NoErr /\ d_seen = {} /\ d_out = "none"
    /\ view = NoView
    /\ f_runs = 0 /\ f_pc = "idle" /\ f_cands = <<>> /\ f_tried = <<>>
    /\ f_last_err = NoErr /\ f_log = <<>> /\ f_exit = NoExit
IdleTable ==
    /\ t_stage = "off" /\ t_records = <<>> /\ t_raw = EmptyDF /\ t_df = EmptyDF /\ t_points = <<>>
IdleUrl ==
    /\ u_stage = "off" /\ u_hint = EmptyUrl /\ u_out = <<>>
IdleZoom ==
    /\ z_stage = "off" /\ z_pts = <<>> /\ z_views = <<>>

\* ------------------------------------------------------------------------
\* The time-to-live memo (st.cache_data(ttl=60)) and the snapshot file
\* ------------------------------------------------------------------------
\* a memo entry that is still served at the very second its time to live ends
FreshInclusive(e, t) == t - e.at <= TTL
Fresh(e, t) == t - e.at < TTL
memoHit(m, args, t) == \E e \in m : e.args = args /\ Fresh(e, t)
memoGet(m, args, t) == CHOOSE e \in m : e.args = args /\ Fresh(e, t)
memoPut(m, args, val, t) == {e \in m : e.args # args} \cup {[args |-> args, val |-> val, at |-> t]}

\* dashboard.save_cache
save_cache(records, used_url, fetch_time_str) ==
    [exists |-> TRUE, writer |-> "dashboard", saved_at |-> fetch_time_str, used_api |-> used_url,
     count |-> Len(records), records |-> records]

\* how fetch_records_smart judges one response: <<kind, records>>, kind being
\* "raised", "data" (it returns) or "nodata" (it goes on)
Judge(r) ==
    IF ~r.ok THEN <<"raised", <<>>>>
    ELSE LET records == normalize_records(r.payload)
         IN IF isList(r.payload) /\ Len(r.payload.items) > 0 THEN <<"data", r.payload.items>>
            ELSE IF Len(records) > 0 THEN <<"data", records>>
            ELSE <<"nodata", <<>>>>

\* lines 440-445 of the dashboard: the working table and the empty check.
\* Whether the table is empty does not depend on how missing device ids
\* compare, the first row always survives deduplication.
ViewState(records) ==
    LET df_raw == build_df(records)
        df == latest_per_device(df_raw, TRUE)
    IN IF dfEmpty(df) THEN "empty" ELSE "shown"

\* ViewState of every record list a response of the model can carry
ServedRecords == {Judge(r)[2] : r \in Responses}
ViewStateOf == [records \in ServedRecords |-> ViewState(records)]

ShownView(used_url, records, fetch_time) ==
    [state |-> ViewStateOf[records], used_url |-> used_url, records |-> records,
     fetch_time |-> fetch_time, err_last |-> NoErr, err_tried |-> <<>>, err_seen |-> {}]

\* the except branch of lines 436-438: st.error and st.stop
FailedView(fetch_time, last_err, tried, seen) ==
    [state |-> "fetch_failed", used_url |-> EmptyUrl, records |-> <<>>,
     fetch_time |-> fetch_time, err_last |-> last_err, err_tried |-> tried, err_seen |-> seen]

\* ------------------------------------------------------------------------
\* The dashboard script (one run per user interaction)
\* ------------------------------------------------------------------------
\* the memo after the sidebar buttons: "clear" and "refresh" both empty it
\* (st.cache_data.clear()) before fetch_records_smart is called
AfterButtons(m, btn) == IF btn = "clear" \/ btn = "refresh" THEN {} ELSE m

fetchVars == <<f_runs, f_pc, f_cands, f_tried, f_last_err, f_log, f_exit>>
dashVars == <<memo, runs, d_pc, d_args, d_fetch_time, d_cands, d_tried, d_last_err, d_seen, d_out, view>>

\* A run whose call of fetch_records_smart is answered by the memo: no
\* request is made; save_cache and the table follow in the same run.
DashRunHit(url, api_key, btn) ==
    /\ prog = "dashboard"
    /\ d_pc = "idle" /\ runs < MaxRuns
    /\ LET m == AfterButtons(memo, btn)
       IN /\ memoHit(m, <<url, api_key>>, now)
          /\ LET e == memoGet(m, <<url, api_key>>, now)
             IN /\ snapshot' = save_cache(e.val[2], e.val[1], now)
                /\ view' = ShownView(e.val[1], e.val[2], now)
          /\ memo' = m
    /\ runs' = runs + 1
    /\ d_args' = <<url, api_key>> /\ d_fetch_time' = now
    /\ d_cands' = <<>> /\ d_out' = "none"
    /\ UNCHANGED <<prog, now, d_pc, d_tried, d_last_err, d_seen, fetchVars, tableVars, urlVars, zoomVars>>

\* A run whose call of fetch_records_smart misses the memo: the body of the
\* function starts, up to its first request.
DashRunMiss(url, api_key, btn) ==
    /\ prog = "dashboard"
    /\ d_pc = "idle" /\ runs < MaxRuns
    /\ LET m == AfterButtons(memo, btn)
       IN /\ ~memoHit(m, <<url, api_key>>, now)
          /\ memo' = m
    /\ runs' = runs + 1
    /\ d_pc' = "resolving"
    /\ d_args' = <<url, api_key>> /\ d_fetch_time' = now
    /\ d_cands' = candidate_urls(url)
    /\ d_tried' = <<>> /\ d_last_err' = NoErr /\ d_seen' = {} /\ d_out' = "none"
    /\ UNCHANGED <<prog, now, snapshot, view, fetchVars, tableVars, urlVars, zoomVars>>

\* One iteration of the loop of fetch_records_smart: the request to the next
\* candidate is answered by r.  On data the function returns and the run goes
\* on through save_cache and the table; after the last candidate it raises
\* and the run ends in the except branch.  The locals of the function
\* (tried, last_err) end with it.
DashRequest(r) ==
    /\ d_pc = "resolving"
    /\ Len(d_tried) < Len(d_cands)
    /\ d_out' = (IF r.ok THEN Judge(r)[1] ELSE r.err)
    /\ LET u == d_cands[Len(d_tried) + 1]
           tried == Append(d_tried, u)
           j == Judge(r)
           last_err == IF j[1] = "raised" THEN r.err ELSE d_last_err
           seen == d_seen \cup {j[1]}
       IN IF j[1] = "data"
          THEN /\ memo' = memoPut(memo, d_args, <<u, j[2]>>, now)
               /\ snapshot' = save_cache(j[2], u, d_fetch_time)
               /\ view' = ShownView(u, j[2], d_fetch_time)
               /\ d_pc' = "idle"
               /\ d_tried' = <<>> /\ d_last_err' = NoErr /\ d_seen' = {}
          ELSE IF Len(tried) = Len(d_cands)
          THEN /\ view' = FailedView(d_fetch_time, last_err, tried, seen)
               /\ d_pc' = "idle"
               /\ d_tried' = <<>> /\ d_last_err' = NoErr /\ d_seen' = {}
               /\ UNCHANGED <<memo, snapshot>>
          ELSE /\ d_tried' = tried /\ d_last_err' = last_err /\ d_seen' = seen
               /\ UNCHANGED <<memo, snapshot, view, d_pc>>
    /\ UNCHANGED <<prog, now, runs, d_args, d_fetch_time, d_cands, fetchVars, tableVars, urlVars, zoomVars>>

\* ------------------------------------------------------------------------
\* The fetch script (fetch_local.main)
\* ------------------------------------------------------------------------
FetchStart(env_url) ==
    /\ prog = "fetch_local"
    /\ f_pc = "idle" /\ f_runs < MaxFetchRuns
    /\ f_runs' = f_runs + 1
    /\ f_pc' = "running"
    /\ f_cands' = build_candidates(env_url)
    /\ f_tried' = <<>> /\ f_last_err' = NoErr /\ f_log' = <<>>
    /\ UNCHANGED <<prog, now, snapshot, dashVars, f_exit, tableVars, urlVars, zoomVars>>

\* how the script's loop sees one response: the error the request raised,
\* or the kind of the answer; it breaks on any answer
FetchKind(r) ==
    IF ~r.ok THEN r.err
    ELSE IF r.payload.t = "null" THEN "null"
    ELSE IF Len(normalize_records(r.payload)) > 0 THEN "data"
    ELSE "nodata"

\* line 110: raise RuntimeError(... last_err)
FetchFailed(last_err) ==
    [status |-> "error", used_url |-> EmptyUrl, records |-> <<>>, err_last |-> last_err, err_tried |-> <<>>]

\* the snapshot main() writes
fetch_out(records, used_url, saved_at) ==
    [exists |-> TRUE, writer |-> "fetch_local", saved_at |-> saved_at, used_api |-> used_url,
     count |-> Len(records), records |-> records]

\* One iteration of the loop of main(): fetch_json(u) requests
\* with_query(u, limit/offset).  Any answer ends the loop; the rest of
\* main() follows in the same step.
FetchRequest(r) ==
    /\ f_pc = "running"
    /\ Len(f_tried) < Len(f_cands)
    /\ LET u == f_cands[Len(f_tried) + 1]
           final_url == fl_final_url(u)
           tried == Append(f_tried, final_url)
           records == normalize_records(r.payload)
       IN /\ f_tried' = tried
          /\ f_log' = Append(f_log, FetchKind(r))
          /\ IF ~r.ok
             THEN /\ f_last_err' = r.err
                  /\ UNCHANGED snapshot
                  /\ IF Len(tried) = Len(f_cands)
                     THEN /\ f_pc' = "idle"
                          /\ f_exit' = FetchFailed(r.err)
                     ELSE UNCHANGED <<f_pc, f_exit>>
             ELSE /\ f_pc' = "idle"
                  /\ UNCHANGED f_last_err
                  /\ IF r.payload.t = "null"
                     THEN /\ f_exit' = FetchFailed(f_last_err)
                          /\ UNCHANGED snapshot
                     ELSE /\ f_exit' = [status |-> "ok", used_url |-> final_url, records |-> records, err_last |-> NoErr, err_tried |-> <<>>]
                          /\ snapshot' = fetch_out(records, final_url, now)
    /\ UNCHANGED <<prog, now, dashVars, f_runs, f_cands, tableVars, urlVars, zoomVars>>

\* time passes
Tick ==
    /\ now + TickStep <= MaxTicks * TickStep
    /\ now' = now + TickStep
    /\ UNCHANGED <<prog, snapshot, dashVars, fetchVars, tableVars, urlVars, zoomVars>>

Buttons == {"none", "refresh", "clear"}

Init == prog \in {"dashboard", "fetch_local"} /\ IdleResolve /\ IdleTable /\ IdleUrl /\ IdleZoom
Next ==
    \/ \E url \in DashHints, api_key \in ApiKeys, btn \in Buttons : DashRunHit(url, api_key, btn)
    \/ \E url \in DashHints, api_key \in ApiKeys, btn \in Buttons : DashRunMiss(url, api_key, btn)
    \/ \E r \in Responses : DashRequest(r)
    \/ \E env_url \in EnvHints : FetchStart(env_url)
    \/ \E r \in Responses : FetchRequest(r)
    \/ Tick
Spec == Init /\ [][Next]_vars

\* ------------------------------------------------------------------------
\* The table pipeline of one dashboard run, stage by stage (lines 440-451
\* and render_map), on every batch of raw records of the model
\* ------------------------------------------------------------------------
BuildDf ==
    /\ t_stage = "raw"
    /\ t_raw' = build_df(t_records)
    /\ t_stage' = "built"
    /\ UNCHANGED <<t_records, t_df, t_points, resolveVars, urlVars, zoomVars>>

LatestPerDevice(na_equal) ==
    /\ t_stage = "built"
    /\ t_df' = latest_per_device(t_raw, na_equal)
    /\ t_stage' = IF dfEmpty(t_df') THEN "empty" ELSE "deduped"
    /\ UNCHANGED <<t_records, t_raw, t_points, resolveVars, urlVars, zoomVars>>

\* Indexing with a frame mask whose labels are duplicated depends on the
\* pandas build: where() either aligns the mask and blanks the frame, or
\* refuses the aligned mask (mask_raises) and the run ends there.
FilterView(only_geo, show_only_exceed, mask_raises) ==
    /\ t_stage = "deduped"
    /\ LET g == filter_view(t_df, only_geo, FALSE)
       IN IF ExceedMaskIsFrame(g, show_only_exceed) /\ mask_raises
          THEN t_df' = g /\ t_stage' = "raised"
          ELSE t_df' = filter_view(t_df, only_geo, show_only_exceed) /\ t_stage' = "filtered"
    /\ UNCHANGED <<t_records, t_raw, t_points, resolveVars, urlVars, zoomVars>>

RenderMap ==
    /\ t_stage = "filtered"
    /\ t_points' = render_map(t_df)
    /\ t_stage' = IF LevelRaises(t_df) THEN "raised" ELSE "rendered"
    /\ UNCHANGED <<t_records, t_raw, t_df, resolveVars, urlVars, zoomVars>>

InitTable ==
    /\ prog = "dashboard" /\ IdleResolve /\ IdleUrl /\ IdleZoom
    /\ t_stage = "raw" /\ t_records \in Batches
    /\ t_raw = EmptyDF /\ t_df = EmptyDF /\ t_points = <<>>
NextTable ==
    \/ BuildDf
    \/ \E na_equal \in BOOLEAN : LatestPerDevice(na_equal)
    \/ \E only_geo \in BOOLEAN, show_only_exceed \in BOOLEAN, mask_raises \in BOOLEAN :
          FilterView(only_geo, show_only_exceed, mask_raises)
    \/ RenderMap
SpecTable == InitTable /\ [][NextTable]_vars

\* ------------------------------------------------------------------------
\* Candidate construction of both resolvers on every hint URL of the model
\* ------------------------------------------------------------------------
QueryPairs == { <<"limit", "5">>, <<"limit", "">>, <<"limit", "1000">>,
                <<"offset", "7">>, <<"offset", "0">>, <<"page", "2">> }
Queries == UNION {[1..n -> QueryPairs] : n \in 0..MaxQuery}
UrlInputs ==
    {[ws |-> w, path |-> pa, query |-> q] :
        w \in {0, 1}, pa \in {"https://example.org/aqi", OpenDataUrl.path}, q \in Queries}
    \cup {[ws |-> w, path |-> "", query |-> <<>>] : w \in {0, 1}}

\* the request URLs of the dashboard's resolver for the hint typed in the
\* sidebar
DashCandidates ==
    /\ u_stage = "input"
    /\ u_out' = candidate_urls(u_hint)
    /\ u_stage' = "dashboard"
    /\ UNCHANGED <<u_hint, resolveVars, tableVars, zoomVars>>

\* the request URLs of the fetch script's resolver; ENV_URL is stripped
\* where it is read (line 19)
FetchCandidates ==
    /\ u_stage = "input"
    /\ LET cands == build_candidates(urlStrip(u_hint))
       IN u_out' = [i \in 1..Len(cands) |-> fl_final_url(cands[i])]
    /\ u_stage' = "fetch_local"
    /\ UNCHANGED <<u_hint, resolveVars, tableVars, zoomVars>>

InitUrl ==
    /\ prog = "dashboard" /\ IdleResolve /\ IdleTable /\ IdleZoom
    /\ u_stage = "input" /\ u_hint \in UrlInputs /\ u_out = <<>>
NextUrl == DashCandidates \/ FetchCandidates
SpecUrl == InitUrl /\ [][NextUrl]_vars

\* ------------------------------------------------------------------------
\* The viewport fitter on two point sets, one per run of render_map with
\* fit_zoom (lines 483-484): boxes around the default centre, given by two
\* opposite corners, with every pair of half spans of the model
\* ------------------------------------------------------------------------
\* half spans in micro-degrees; none makes a span equal to the 0.002
\* threshold, where the float subtraction of the code decides
HalfSpans == {0, 150, 500, 999, 1500, 2500, 10000, 100000, 5000000, 70000000}
BoxPoints(h, w) ==
    << [Lat |-> Deg(DefaultLat - h), Lon |-> Deg(DefaultLon - w)],
       [Lat |-> Deg(DefaultLat + h), Lon |-> Deg(DefaultLon + w)] >>
\* a row without a longitude
GapRow == [Lat |-> Deg(DefaultLat + 2500), Lon |-> NoDeg]
PointLists ==
    {BoxPoints(h, w) : h \in HalfSpans, w \in HalfSpans}
    \cup {<<GapRow>>, BoxPoints(999, 0) \o <<GapRow>>}

\* render_map returned before drawing: no view
NoMap == [drawn |-> FALSE, latitude |-> 0, longitude |-> 0, zoom |-> 0]
\* the view render_map(df_map, fit_zoom=True) draws with: none when no row
\* has both coordinates (the warning and return of lines 460-462), else the
\* view of view_state_for_points (lines 483-484)
MapView(df_map) ==
    IF \A i \in 1..Len(df_map) : df_map[i].Lat.na \/ df_map[i].Lon.na
    THEN NoMap
    ELSE LET v == view_state_for_points(df_map, 10)
         IN [drawn |-> TRUE, latitude |-> v.latitude, longitude |-> v.longitude, zoom |-> v.zoom]

\* one call of render_map with fit_zoom = True on the rows of the selected
\* district (never an empty frame: lines 555-557 fall back to the whole
\* table with fit_zoom False)
FitZoom ==
    /\ z_stage = "on"
    /\ Len(z_views) < Len(z_pts)
    /\ z_views' = Append(z_views, MapView(z_pts[Len(z_views) + 1]))
    /\ UNCHANGED <<z_stage, z_pts, resolveVars, tableVars, urlVars>>

InitZoom ==
    /\ prog = "dashboard" /\ IdleResolve /\ IdleTable /\ IdleUrl
    /\ z_stage = "on" /\ z_pts \in [1..2 -> PointLists] /\ z_views = <<>>
NextZoom == FitZoom
SpecZoom == InitZoom /\ [][NextZoom]_vars

\* ------------------------------------------------------------------------
\* Properties
\* ------------------------------------------------------------------------
Range(q) == {q[i] : i \in 1..Len(q)}
Distinct(q) == \A i \in 1..Len(q), j \in 1..Len(q) : q[i] = q[j] => i = j
IsPrefix(p, q) == Len(p) <= Len(q) /\ \A i \in 1..Len(p) : p[i] = q[i]
Paged(path) == Url(path, PageParams)
\* the errors a request of the model can raise
ErrNames == {r.err : r \in {x \in Responses : ~x.ok}}

\* C1: resolution is one left-to-right pass over the candidates: the requests
\* made are a prefix of the candidate list, none is made twice, a request is
\* made only after every earlier one failed (raised, or carried no records),
\* none is made after a success, and a run that succeeds returns the first
\* candidate that yielded a non-empty, parseable payload.  Stated for the
\* dashboard's resolver and for the fetch script's.
C1_SinglePassFirstSuccess ==
    /\ d_pc = "resolving" =>
          /\ IsPrefix(d_tried, d_cands) /\ Distinct(d_tried)
          /\ d_seen \subseteq {"raised", "nodata"}
    /\ (d_pc = "idle" /\ view.state \in {"shown", "empty"}) =>
          /\ Len(view.records) > 0
          /\ view.used_url \in Range(candidate_urls(d_args[1]))
    /\ f_runs > 0 =>
          /\ Len(f_tried) <= Len(f_cands)
          /\ \A i \in 1..Len(f_tried) : f_tried[i] = fl_final_url(f_cands[i])
          /\ Distinct(f_tried)
          /\ \A i \in 1..(Len(f_log) - 1) : f_log[i] # "data"
    /\ (f_pc = "idle" /\ f_exit.status = "ok" /\ f_runs > 0) =>
          /\ f_log # <<>> /\ f_log[Len(f_log)] = "data"
          /\ Len(f_exit.records) > 0
          /\ f_exit.used_url = f_tried[Len(f_tried)]

C2_FailedState ==
    /\ (d_pc = "idle" /\ view.state = "fetch_failed") =>
          /\ view.err_tried = d_cands /\ d_cands # <<>>
          /\ view.err_seen # {} /\ view.err_seen \subseteq {"raised", "nodata"}
          /\ d_out \in ErrNames \cup {"nodata"}
          /\ d_args[1] = EmptyUrl =>
                view.err_tried = << Paged(DEFAULT_SWAGGER_URL.path), Paged(OpenDataUrl.path),
                                    Paged(ApiUrl.path), Paged(ApiV1Url.path), Paged(OpenApiUrl.path) >>
    /\ (f_pc = "idle" /\ f_runs > 0 /\ f_exit.status = "error" /\ Range(f_log) \subseteq ErrNames) =>
          /\ Len(f_tried) = Len(f_cands)
          /\ Len(f_log) = Len(f_tried)
          /\ f_exit.err_last = f_log[Len(f_log)]
          /\ f_exit.err_tried = <<>>
          /\ f_cands = build_candidates(EmptyUrl) =>
                f_tried = << Paged(OpenDataUrl.path), Paged(DEFAULT_SWAGGER_URL.path),
                             Paged(ApiUrl.path), Paged(OpenApiUrl.path) >>
\* one request of the dashboard's resolver: the last error after it is the
\* error it raised, or the last error before it when it raised none
C2_RequestStep ==
    (d_pc = "resolving" /\ (d_tried' # d_tried \/ d_pc' = "idle")) =>
        LET expected == IF d_out' \in ErrNames THEN d_out' ELSE d_last_err
        IN /\ d_pc' = "resolving" => d_last_err' = expected
           /\ (d_pc' = "idle" /\ view'.state = "fetch_failed") => view'.err_last = expected
\* a step that ends a resolution (only such a step enters a failed state)
C2_EndsRun == (d_pc = "resolving" /\ d_pc' = "idle") \/ (f_pc = "running" /\ f_pc' = "idle")
C3_EmptyPayloadIsNotFailure ==
    (d_pc = "idle" /\ view.state = "fetch_failed") => "nodata" \notin view.err_seen

\* C4: when every candidate has failed and a snapshot file exists from an
\* earlier successful fetch, the dashboard displays the records of the
\* snapshot.
C4_SnapshotShownOnFailure ==
    (d_pc = "idle" /\ view.state = "fetch_failed" /\ snapshot.exists) =>
        view.records = snapshot.records
C4_Witness ==
    /\ d_pc = "idle" /\ view.state = "fetch_failed"
    /\ snapshot.exists /\ snapshot.writer = "dashboard" /\ Len(snapshot.records) > 0

\* C5: the snapshot file changes only in a step in which a live fetch
\* succeeds: a run served from the memo and a run in which every candidate
\* fails leave its records, source URL and timestamp as they were.
C5_SnapshotOnlyOnLiveFetch ==
    [][snapshot' # snapshot => (d_pc = "resolving" \/ f_pc = "running")]_vars

\* the alias under which record rec carries field std ("" when it carries
\* none), and the value it carries there
AliasUsed(rec, std) == FirstAlias(std, DOMAIN rec)
Missing(x) == ~notna(x)
SameCell(a, b) == a = b \/ (Missing(a) /\ Missing(b))
Built == t_stage \in {"built", "deduped", "empty", "filtered", "rendered", "raised"}

\* C6: every row of the table the normaliser produces has a present, finite
\* numeric Lon, Lat and PM25 (a record that lacks one is discarded).
C6_RowsHaveFiniteFields ==
    Built =>
        \A i \in 1..Len(t_raw.rows) : \A c \in {"Lat", "Lon", "PM25"} :
            c \in t_raw.columns /\ IsFinite(t_raw.rows[i][c])
C6_Witness ==
    /\ t_stage = "rendered" /\ t_records = <<RecDevA1, RecNoDev1>>
    /\ Len(t_raw.rows) = 2 /\ "PM25" \in t_raw.columns
    /\ Missing(t_raw.rows[2]["PM25"])
    /\ Len(t_points) = 2
    /\ t_points[2].level = "Hazardous"

\* C7: the normaliser is alias-independent per record: each record's
\* canonical Lon, Lat and PM25 equal the value the record carries under the
\* alias it uses, also when the records of a batch use different aliases
\* for the same field.
C7_AliasIndependentPerRecord ==
    Built =>
        \A i \in 1..Len(t_records) : \A std \in {"Lon", "Lat", "PM25"} :
            AliasUsed(t_records[i], std) # "" =>
                /\ std \in t_raw.columns
                /\ i <= Len(t_raw.rows)
                /\ SameCell(t_raw.rows[i][std], safe_float(t_records[i][AliasUsed(t_records[i], std)]))

\* C8: the deduplicator keeps, for each device id, exactly the first row
\* with that id, keeps every row without a device id, and preserves order.
C8_DedupKeepsRowsWithoutDevice ==
    t_stage = "deduped" =>
        LET dev(i) == IF "Device" \in t_raw.columns THEN t_raw.rows[i]["Device"] ELSE None
            keep == [i \in 1..Len(t_raw.rows) |->
                        Missing(dev(i)) \/ ~\E j \in 1..(i - 1) : dev(j) = dev(i)]
        IN t_df.rows = SelectRows(t_raw.rows, keep, 1)

\* C9: for every PM2.5 value >= 0 the classifier returns the band with the
\* smallest upper bound among 15.4, 35.4, 54.4, 150.4, 250.4, infinity that
\* is >= the value (a boundary value falls in the lower band), and the level
\* of a displayed point is the classifier's result for that point's PM2.5.
LevelNames == <<"Good", "Moderate", "UnhealthySensitive", "Unhealthy", "VeryUnhealthy", "Hazardous">>
BandOf(pm) ==
    LET fits(n) == n = 6 \/ (pm.k = "float" /\ LevelBounds[n] >= pm.v)
    IN LevelNames[CHOOSE n \in 1..6 : fits(n) /\ \A m \in 1..(n - 1) : ~fits(m)]
C9_LevelIsLowestFittingBand ==
    t_stage = "rendered" =>
        \A i \in 1..Len(t_points) :
            /\ t_points[i].level = pm25_level(t_points[i].PM25)
            /\ (IsNumber(t_points[i].PM25) /\ t_points[i].PM25.v >= 0) =>
                   t_points[i].level = BandOf(t_points[i].PM25)
            /\ t_points[i].PM25.k = "none" <=> t_points[i].level = "NoData"
C9_Witness ==
    /\ t_stage = "rendered" /\ Len(t_points) = 1
    /\ t_points[1].PM25 = Float(3540) /\ t_points[1].level = "Moderate"

\* C10: every request URL of both resolvers carries limit and offset, and
\* when the hint URL specifies limit or offset the request sent for the hint
\* keeps the hint's own value.
C10_HintPaginationKept ==
    u_stage # "input" =>
        /\ \A i \in 1..Len(u_out) : hasKey(u_out[i].query, "limit") /\ hasKey(u_out[i].query, "offset")
        /\ nonEmpty(urlStrip(u_hint)) =>
              \A key \in {"limit", "offset"} :
                  LET q == parse_qs(u_hint.query)
                  IN hasKey(q, key) =>
                         u_out[1].query[KeyPos(u_out[1].query, key)][2] = q[KeyPos(q, key)][2][1]

\* C11: a run of the dashboard whose (hint URL, credential) has a memo entry
\* younger than the time to live either is served from it (no request is
\* started, the URL and records shown are the ones that fetch returned, the
\* memo is left as it is) or follows a clearing of the memo by one of the two
\* buttons and starts the pass over the candidates again; a run without such
\* an entry always starts the pass.
C11_FreshMemoServesWithoutNetwork ==
    [][(prog = "dashboard" /\ runs' = runs + 1) =>
          LET live == {e \in memo : e.args = d_args' /\ now - e.at < TTL}
          IN IF live # {}
             THEN \/ /\ d_pc' = "idle" /\ d_cands' = <<>> /\ memo' = memo
                     /\ \E e \in live : /\ view'.used_url = e.val[1]
                                        /\ view'.records = e.val[2]
                     /\ view'.state # "fetch_failed"
                  \/ /\ memo' = {} /\ d_pc' = "resolving" /\ d_tried' = <<>>
                     /\ d_cands' = candidate_urls(d_args'[1])
             ELSE /\ d_pc' = "resolving" /\ d_tried' = <<>>
                  /\ d_cands' = candidate_urls(d_args'[1])]_vars
C11_Witness ==
    /\ prog = "dashboard" /\ runs = 2 /\ d_pc = "idle" /\ d_cands = <<>>
    /\ \E e \in memo : /\ e.args = d_args /\ e.at < d_fetch_time /\ d_fetch_time - e.at < TTL
                       /\ view.used_url = e.val[1] /\ view.records = e.val[2]
                       /\ Len(view.records) > 0

\* the bounding box of the located points of a point list
LocatedPoints(pts) == LET located(r) == ~r.Lat.na /\ ~r.Lon.na IN SelectSeq(pts, located)
LatSpan(pts) == ColMax(LocatedPoints(pts), "Lat") - ColMin(LocatedPoints(pts), "Lat")
LonSpan(pts) == ColMax(LocatedPoints(pts), "Lon") - ColMin(LocatedPoints(pts), "Lon")
LatSum(pts) == ColMax(LocatedPoints(pts), "Lat") + ColMin(LocatedPoints(pts), "Lat")
LonSum(pts) == ColMax(LocatedPoints(pts), "Lon") + ColMin(LocatedPoints(pts), "Lon")

\* C12: the viewport fitter is monotone and clamped: the zoom of every view
\* drawn lies in 8..14, and of two boxes with the same centre where the second is
\* at least as wide in both axes the second never gets the greater zoom,
\* the near-coincident case included.
C12_ZoomMonotoneAndClamped ==
    /\ \A i \in 1..Len(z_views) : z_views[i].drawn => z_views[i].zoom \in 8..14
    /\ (/\ Len(z_views) = 2
        /\ LocatedPoints(z_pts[1]) # <<>> /\ LocatedPoints(z_pts[2]) # <<>>
        /\ LatSum(z_pts[1]) = LatSum(z_pts[2]) /\ LonSum(z_pts[1]) = LonSum(z_pts[2])
        /\ LatSpan(z_pts[2]) >= LatSpan(z_pts[1])
        /\ LonSpan(z_pts[2]) >= LonSpan(z_pts[1]))
       => z_views[2].zoom <= z_views[1].zoom
C12_Witness ==
    /\ Len(z_views) = 2 /\ z_views[1].drawn /\ z_views[2].drawn
    /\ z_pts[1] = BoxPoints(999, 0) /\ z_pts[2] = BoxPoints(2500, 0)
    /\ z_views[1].zoom = CoincidentZoom /\ z_views[2].zoom = 14

====
